---- MODULE Spec2Model ----
(***************************************************************************)
(* Model of the SAP CX WhatsApp agent: the four-node LangGraph pipeline    *)
(* (src/agents/nodes.py, src/agents/sap_agent.py) and the Twilio webhook   *)
(* that calls it (src/webhook/app.py).                                     *)
(*                                                                         *)
(* Python values are modelled as follows.  Strings are TLA+ strings.       *)
(* None is the string None ("<None>"), which no other value equals.  A     *)
(* JSON array given where a string is expected (an unhashable Python list) *)
(* is the string LIST_VALUE.  A float confidence c is the integer 100*c.   *)
(* A dict is a record; a dict built by json.loads, whose keys may be       *)
(* absent, is a record with a field "keys" holding the keys present.       *)
(***************************************************************************)
EXTENDS Integers, Sequences, FiniteSets, TLC

(* ------------------------------ bounds --------------------------------- *)
MaxQueries == 2
MaxUsers == 1
MaxDetails == 2
MaxTexts == 1

(* ------------------------------ values --------------------------------- *)
None == "<None>"

LIST_VALUE == "<list ['fsm', 'cpi']>"

QueryPool ==
  << "How do I configure service ticket routing in Service Cloud?",
     "How do FSM work orders integrate with CPI?",
     "How do I set up OAuth authentication in CPI?",
     "Help me create a CPQ quote template" >>

Queries == { QueryPool[i] : i \in 1..MaxQueries }

UserPool == << "whatsapp:+1234567890", "whatsapp:+0987654321", "test_user" >>

Users == { UserPool[i] : i \in 1..MaxUsers }

DetailPool ==
  << "Connection error.",
     "Error code: 429 - rate limit reached",
     "Error code: 401 - invalid api key",
     "Request timed out." >>

ErrorDetails == { DetailPool[i] : i \in 1..MaxDetails }

PlanPool == << "1. Identify the module 2. Look up the setting 3. Apply it",
               "1. Check prerequisites 2. Configure 3. Test",
               "1. Read the docs" >>

Plans == { PlanPool[i] : i \in 1..MaxTexts }

AnswerPool == << "Go to Admin > Service > Assignment Rules and add a rule.",
                 "Create the work order, then map it in an iFlow.",
                 "Use the Security settings." >>

Answers == { AnswerPool[i] : i \in 1..MaxTexts }

(* DOMAIN_DESCRIPTIONS: the catalog of known domain identifiers *)
DOMAIN_DESCRIPTIONS == { "service_cloud", "fsm", "sales_cloud", "cpq", "cpi" }

(* ------------------------- fixed message texts ------------------------- *)
CLASSIFICATION_FAILED == "Classification failed: "

PLANNING_FAILED == "Planning failed: "

GENERATION_FAILED == "Generation failed: "

GENERATION_APOLOGY == "Sorry, I encountered an error generating the answer."

NO_DOCS == << "No documentation found for this domain." >>

GREETING == "Hi! I'm your SAP CX assistant. Ask me anything about Service Cloud, FSM, Sales Cloud, CPQ, or CPI integration!"

COULD_NOT_PROCESS == "Sorry, I could not process your request."

AGENT_ERROR_REPLY == "I encountered an issue processing your question. Please try rephrasing it or contact support."

AGENT_EXCEPTION_REPLY == "Sorry, I'm experiencing technical difficulties. Please try again in a moment."

FORBIDDEN == "Forbidden"

(* ------------------------------ dicts ---------------------------------- *)
(* dict.get(key, default) on a state dict: the default applies only when   *)
(* the key is absent, not when its value is None.                          *)
StateGet(s, key, default) == IF key \in DOMAIN s THEN s[key] ELSE default

(* result.get(key, default) on the dict json.loads returned *)
JsonGet(result, key, default) ==
  IF key \in result.keys THEN result[key] ELSE default

(* str(KeyError(key)) *)
KeyErrorText(key) == "'" \o key \o "'"

(* str(TypeError) of dict.get on a list *)
UNHASHABLE == "unhashable type: 'list'"

(* str(json.JSONDecodeError) of json.loads on text that is not JSON *)
JSON_DECODE_ERROR == "Expecting value: line 1 column 1 (char 0)"

(* Whether Python can hash the value (use it as a dict key) *)
Hashable(v) == v # LIST_VALUE

(* ---------------------- completion service outcomes -------------------- *)
(* The keys of the classification JSON that classify_node reads *)
JsonKeys == { "primary_domain", "secondary_domains", "is_cross_domain", "confidence" }

(* Values the completion service may give for primary_domain: catalog      *)
(* identifiers, an identifier outside the catalog, null, and a JSON array. *)
PrimaryValues ==
  { "service_cloud", "fsm", "commerce_cloud", "unknown", None, LIST_VALUE }

SecondaryValues == { << >>, << "cpi" >> }

ConfidenceValues == { 0, 95 }

(* The content of a classification response: text holding no JSON object   *)
(* (is_json = FALSE), or a JSON object holding the keys in "keys", either  *)
(* bare or (wrapped = TRUE) a complete object inside a markdown fence or   *)
(* other surrounding text.  A key that is absent has the fixed value       *)
(* written here, which nothing reads.                                      *)
ClassifyContents ==
  { r \in [ is_json : BOOLEAN, wrapped : BOOLEAN, keys : SUBSET JsonKeys,
            primary_domain : PrimaryValues,
            secondary_domains : SecondaryValues,
            is_cross_domain : BOOLEAN,
            confidence : ConfidenceValues ] :
      /\ ("primary_domain" \notin r.keys => r.primary_domain = None)
      /\ ("secondary_domains" \notin r.keys => r.secondary_domains = << >>)
      /\ ("is_cross_domain" \notin r.keys => r.is_cross_domain = FALSE)
      /\ ("confidence" \in r.keys <=> r.confidence = 95)
      /\ (~r.is_json => r.keys = {})
      /\ (r.wrapped => r.is_json /\ r.keys = JsonKeys) }

(* json.loads(content) raises JSONDecodeError: it parses the whole text,   *)
(* so it rejects a JSON object with anything around it.                    *)
json_loads_raises(content) == ~content.is_json \/ content.wrapped

(* What the completion service gave classify_node *)
content_kind(raised, content) ==
  IF raised THEN "none"
  ELSE IF ~content.is_json THEN "not_json"
  ELSE IF content.wrapped THEN "wrapped_json"
  ELSE IF "primary_domain" \notin content.keys THEN "no_primary_domain"
  ELSE IF "confidence" \notin content.keys THEN "no_confidence"
  ELSE "complete"

(* -------------------------------- nodes -------------------------------- *)
Nodes == { "classify", "plan", "retrieve", "generate" }

(* run_agent: the initial state handed to the graph *)
(* An initial state that already names a domain *)
initial_state_unknown_domain(query, user_id) ==
  [ query |-> query,
    user_id |-> user_id,
    primary_domain |-> "unknown",
    secondary_domains |-> << >>,
    is_cross_domain |-> FALSE,
    plan |-> None,
    retrieved_docs |-> << >>,
    answer |-> None,
    confidence |-> 0,
    error |-> None ]

initial_state(query, user_id) ==
  [ query |-> query,
    user_id |-> user_id,
    primary_domain |-> None,
    secondary_domains |-> << >>,
    is_cross_domain |-> FALSE,
    plan |-> None,
    retrieved_docs |-> << >>,
    answer |-> None,
    confidence |-> 0,
    error |-> None ]

(* classify_node whose except branch also falls back to a catalog domain *)
classify_node_guesses(s, raised, detail, content) ==
  IF raised
  THEN [s EXCEPT !.error = CLASSIFICATION_FAILED \o detail,
                 !.primary_domain = "service_cloud"]
  ELSE IF json_loads_raises(content)
  THEN [s EXCEPT !.error = CLASSIFICATION_FAILED \o JSON_DECODE_ERROR,
                 !.primary_domain = "service_cloud"]
  ELSE IF "primary_domain" \notin content.keys
  THEN [s EXCEPT !.error = CLASSIFICATION_FAILED \o KeyErrorText("primary_domain"),
                 !.primary_domain = "service_cloud"]
  ELSE LET written ==
             [s EXCEPT !.primary_domain = content.primary_domain,
                       !.secondary_domains = JsonGet(content, "secondary_domains", << >>),
                       !.is_cross_domain = JsonGet(content, "is_cross_domain", FALSE),
                       !.confidence = JsonGet(content, "confidence", 0)]
       IN  IF "confidence" \notin content.keys
           THEN [written EXCEPT !.error = CLASSIFICATION_FAILED \o KeyErrorText("confidence")]
           ELSE written

(* classify_node: the state it returns.  raised: client.chat.completions   *)
(* .create raised an exception whose text is detail; otherwise content is  *)
(* response.choices[0].message.content.                                    *)
classify_node(s, raised, detail, content) ==
  IF raised
  THEN [s EXCEPT !.error = CLASSIFICATION_FAILED \o detail]
  ELSE IF json_loads_raises(content)
  THEN [s EXCEPT !.error = CLASSIFICATION_FAILED \o JSON_DECODE_ERROR]
  ELSE IF "primary_domain" \notin content.keys
  THEN [s EXCEPT !.error = CLASSIFICATION_FAILED \o KeyErrorText("primary_domain")]
  ELSE LET written ==
             [s EXCEPT !.primary_domain = content.primary_domain,
                       !.secondary_domains = JsonGet(content, "secondary_domains", << >>),
                       !.is_cross_domain = JsonGet(content, "is_cross_domain", FALSE),
                       !.confidence = JsonGet(content, "confidence", 0)]
       IN  IF "confidence" \notin content.keys
           THEN [written EXCEPT !.error = CLASSIFICATION_FAILED \o KeyErrorText("confidence")]
           ELSE written

(* Whether classify_node's except branch runs *)
classify_fails(raised, content) ==
  \/ raised
  \/ json_loads_raises(content)
  \/ "primary_domain" \notin content.keys
  \/ "confidence" \notin content.keys

(* plan_node with a success path that also resets error *)
plan_node_clears_error(s, raised, detail, text) ==
  IF raised
  THEN [s EXCEPT !.error = PLANNING_FAILED \o detail]
  ELSE [s EXCEPT !.plan = text, !.error = None]

(* plan_node: the state it returns *)
plan_node(s, raised, detail, text) ==
  IF raised
  THEN [s EXCEPT !.error = PLANNING_FAILED \o detail]
  ELSE [s EXCEPT !.plan = text]

(* plan_node, retrieve_node, generate_node: the primary domain each reads,  *)
(* state.get("primary_domain", "unknown")                                  *)
primary_domain_read(s) == StateGet(s, "primary_domain", "unknown")

(* retrieve_node: MOCK_DOCS *)
MOCK_DOCS ==
  [ d \in DOMAIN_DESCRIPTIONS |->
      CASE d = "service_cloud" ->
             << "Service ticket routing: Configure assignment rules in Admin > Service > Assignment Rules.",
                "Ticket workflows: Set up automation in Admin > Service > Workflows." >>
        [] d = "fsm" ->
             << "FSM work orders: Create work orders in Field Service > Work Orders.",
                "Technician scheduling: Configure in Field Service > Scheduling." >>
        [] d = "cpi" ->
             << "CPI integration: Set up iFlows in Integration Suite.",
                "OAuth configuration: Configure in Security settings." >>
        [] d = "sales_cloud" ->
             << "Opportunity management: Configure in Sales > Opportunities.",
                "Lead routing: Set up in Sales > Lead Assignment." >>
        [] d = "cpq" ->
             << "Quote configuration: Set up in CPQ > Quote Templates.",
                "Pricing rules: Configure in CPQ > Pricing." >> ]

(* retrieve_node: MOCK_DOCS.get(primary_domain, [...]) raises TypeError    *)
(* when primary_domain is not hashable; nothing in the node catches it.    *)
retrieve_raises(s) == ~Hashable(primary_domain_read(s))

(* retrieve_node that also stores the default domain it fell back to *)
retrieve_node_writes_domain(s) ==
  LET primary_domain == primary_domain_read(s)
  IN  IF primary_domain \in DOMAIN MOCK_DOCS
      THEN [s EXCEPT !.retrieved_docs = MOCK_DOCS[primary_domain]]
      ELSE [s EXCEPT !.retrieved_docs = NO_DOCS, !.primary_domain = "unknown"]

(* retrieve_node with an empty default for a domain MOCK_DOCS lacks *)
retrieve_node_empty_default(s) ==
  LET primary_domain == primary_domain_read(s)
      docs == IF primary_domain \in DOMAIN MOCK_DOCS
              THEN MOCK_DOCS[primary_domain]
              ELSE << >>
  IN  [s EXCEPT !.retrieved_docs = docs]

(* retrieve_node: the state it returns, when the lookup does not raise *)
retrieve_node(s) ==
  LET primary_domain == primary_domain_read(s)
      docs == IF primary_domain \in DOMAIN MOCK_DOCS
              THEN MOCK_DOCS[primary_domain]
              ELSE NO_DOCS
  IN  [s EXCEPT !.retrieved_docs = docs]

(* generate_node whose except branch records the error without an answer *)
generate_node_no_apology(s, raised, detail, text) ==
  IF raised
  THEN [s EXCEPT !.error = GENERATION_FAILED \o detail]
  ELSE [s EXCEPT !.answer = text]

(* generate_node: the state it returns *)
(* generate_node that leaves an earlier stage's message in error *)
generate_node_keeps_error(s, raised, detail, text) ==
  IF raised
  THEN [s EXCEPT !.error = IF s.error = None THEN GENERATION_FAILED \o detail
                           ELSE s.error,
                 !.answer = GENERATION_APOLOGY]
  ELSE [s EXCEPT !.answer = text]

generate_node(s, raised, detail, text) ==
  IF raised
  THEN [s EXCEPT !.error = GENERATION_FAILED \o detail,
                 !.answer = GENERATION_APOLOGY]
  ELSE [s EXCEPT !.answer = text]

(* create_sap_agent: the entry point and the edges of the graph *)
ENTRY_POINT == "classify"

Edge(node) ==
  CASE node = "classify" -> "plan"
    [] node = "plan" -> "retrieve"
    [] node = "retrieve" -> "generate"
    [] node = "generate" -> "END"

(* The elements of a sequence *)
Range(seq) == { seq[i] : i \in DOMAIN seq }

(* ------------------------------- webhook ------------------------------- *)
(* Python truthiness of an optional string *)
Truthy(v) == v # None /\ v # ""

(* str.strip() on the request's Body, for the bodies of RawBodies *)
Strip(body) ==
  IF body \in { "", "   " } THEN ""
  ELSE IF \E q \in Queries : body = "  " \o q \o " "
  THEN CHOOSE q \in Queries : body = "  " \o q \o " "
  ELSE body

RawBodies == { "", "   " } \cup Queries \cup { "  " \o q \o " " : q \in Queries }

(* A POST to /webhook: whether validator.validate accepts its signature,   *)
(* and its Body and From values.                                           *)
Requests == [ signature_valid : BOOLEAN, Body : RawBodies, From : Users ]

NO_REPLY == [ status |-> 0, text |-> None ]

(* webhook without the override of response_text when error is set *)
response_text_no_override(agent_result) ==
  StateGet(agent_result, "answer", COULD_NOT_PROCESS)

(* webhook: response_text after run_agent returned agent_result *)
response_text(agent_result) ==
  IF Truthy(StateGet(agent_result, "error", None))
  THEN AGENT_ERROR_REPLY
  ELSE StateGet(agent_result, "answer", COULD_NOT_PROCESS)

(* webhook: the texts the handler itself supplies *)
FixedTexts ==
  { GREETING, COULD_NOT_PROCESS, AGENT_ERROR_REPLY, AGENT_EXCEPTION_REPLY, FORBIDDEN }

(* ----------------------------- vector store --------------------------- *)
(* Bounds of the store model: the longest list add_documents is given and  *)
(* the largest explicit top_k.                                             *)
MaxDocs == 3
MaxTopK == 2

(* search: top_k = 5; search_multi_domain: top_k_per_domain = 3 *)
DEFAULT_TOP_K == 5
DEFAULT_TOP_K_PER_DOMAIN == 3

(* Dimensions of the two embedding backends *)
OPENAI_DIMENSION == 1536
LIGHTWEIGHT_DIMENSION == 384

(* langchain Documents handed to add_documents: page_content and the       *)
(* domain of their metadata                                                *)
DocPool ==
  << [ page_content |-> "Ticket assignment rules", domain |-> "service_cloud" ],
     [ page_content |-> "Ticket workflows", domain |-> "service_cloud" ],
     [ page_content |-> "iFlow setup for ticket export", domain |-> "cpi" ] >>

(* The lists given to add_documents: up to MaxDocs consecutive documents  *)
(* of the pool, taken round from any of them                               *)
DocLists ==
  { [ j \in 1..n |-> DocPool[((o + j - 2) % Len(DocPool)) + 1] ] :
      o \in 1..Len(DocPool), n \in 0..MaxDocs }

(* The domains asked for; no document of DocPool is in cpq *)
StoreDomains == { "service_cloud", "cpi", "cpq" }

StoreQueries == { "ticket assignment", "Service Cloud CPI integration" }

(* The texts given to embed_query and embed_documents directly; two of    *)
(* them differ in letter case only                                         *)
EmbedTexts == { "ticket assignment", "Ticket Assignment", "Ticket workflows" }

(* str.lower() *)
Lower(text) ==
  CASE text = "Ticket Assignment" -> "ticket assignment"
    [] text = "Ticket assignment rules" -> "ticket assignment rules"
    [] text = "Ticket workflows" -> "ticket workflows"
    [] text = "iFlow setup for ticket export" -> "iflow setup for ticket export"
    [] text = "Service Cloud CPI integration" -> "service cloud cpi integration"
    [] OTHER -> text

(* The vector made from the sha512 digest of a string, as one coordinate:  *)
(* different strings, different values                                     *)
TextValue(text) ==
  CASE text = "ticket assignment" -> 1
    [] text = "ticket assignment rules" -> 2
    [] text = "iflow setup for ticket export" -> 3
    [] text = "service cloud cpi integration" -> 4
    [] text = "ticket workflows" -> 5
    [] OTHER -> 0

(* The vector text-embedding-3-small gives a text, as one coordinate: it   *)
(* tells apart texts that differ in letter case                            *)
ModelValue(text) ==
  2 * TextValue(Lower(text)) + (IF text = Lower(text) THEN 0 ELSE 1)

Dimension(backend) ==
  IF backend = "openai" THEN OPENAI_DIMENSION ELSE LIGHTWEIGHT_DIMENSION

(* An embedding that hashes the text as it is written *)
embed_text_case_sensitive(backend, text) ==
  [ dim |-> Dimension(backend), val |-> ModelValue(text) ]

(* embed_query / one vector of embed_documents: _embed_text of the         *)
(* lightweight backend hashes text.lower(); the OpenAI backend asks the    *)
(* model                                                                   *)
embed_text(backend, text) ==
  [ dim |-> Dimension(backend),
    val |-> IF backend = "openai" THEN ModelValue(text) ELSE TextValue(Lower(text)) ]

(* get_embeddings: OpenAI when the key is set and the client can be built, *)
(* else the lightweight fallback                                           *)
get_embeddings(key_present, client_fails) ==
  IF key_present /\ ~client_fails THEN "openai" ELSE "lightweight"

(* Only the OpenAI backend calls a service that can raise *)
embed_raises(backend, service_fails) == backend = "openai" /\ service_fails

(* OpenAIEmbeddings.embed_documents: the texts of one request, at most     *)
(* BATCH_SIZE (1000 in the source, scaled to the lists of the model)       *)
EMBED_BATCH_SIZE == 2

(* The requests OpenAIEmbeddings.embed_documents makes for a list *)
embed_requests(backend, texts) ==
  IF backend = "openai"
  THEN (Len(texts) + EMBED_BATCH_SIZE - 1) \div EMBED_BATCH_SIZE
  ELSE 0

(* embed_documents that puts each later chunk in front *)
RECURSIVE embed_documents_newest_first(_, _)
embed_documents_newest_first(backend, texts) ==
  IF texts = << >> THEN << >>
  ELSE LET n == IF Len(texts) <= EMBED_BATCH_SIZE THEN Len(texts) ELSE EMBED_BATCH_SIZE
       IN  embed_documents_newest_first(backend, SubSeq(texts, n + 1, Len(texts)))
             \o [ i \in 1..n |-> embed_text(backend, texts[i]) ]

(* embed_documents: the lightweight backend embeds text by text, the       *)
(* OpenAI backend chunk by chunk, extending all_embeddings                 *)
RECURSIVE embed_documents(_, _)
embed_documents(backend, texts) ==
  IF backend # "openai"
  THEN [ i \in 1..Len(texts) |-> embed_text(backend, texts[i]) ]
  ELSE IF texts = << >> THEN << >>
  ELSE LET n == IF Len(texts) <= EMBED_BATCH_SIZE THEN Len(texts) ELSE EMBED_BATCH_SIZE
       IN  [ i \in 1..n |-> embed_text(backend, texts[i]) ]
             \o embed_documents(backend, SubSeq(texts, n + 1, Len(texts)))

(* chromadb: squared L2 distance *)
Distance(u, v) == (u.val - v.val) * (u.val - v.val)

(* chromadb: a query or add whose vectors have another dimension than the  *)
(* collection's raises InvalidDimensionException                           *)
dimension_mismatch(c, vec) == \E d \in c : d.vec.dim # vec.dim

(* chromadb collection.query(query_embeddings=[qvec], n_results=n,         *)
(* where=...): the records matching the filter                             *)
Matching(c, where_filter) ==
  { d \in c : where_filter = None \/ d.domain = where_filter }

Min(a, b) == IF a <= b THEN a ELSE b

(* ... and the possible answers: the n nearest matching records in         *)
(* ascending distance, ties in any order                                   *)
chroma_query(c, qvec, n, where_filter) ==
  LET M == Matching(c, where_filter)
      m == Min(n, Cardinality(M))
  IN  { h \in [ 1..m -> M ] :
          /\ \A i, j \in 1..m : i # j => h[i] # h[j]
          /\ \A i, j \in 1..m : i < j => Distance(h[i].vec, qvec) <= Distance(h[j].vec, qvec)
          /\ \A d \in M \ Range(h) :
               \A i \in 1..m : Distance(h[i].vec, qvec) <= Distance(d.vec, qvec) }

(* search: the documents list built from the query's answer *)
format_results(hits, qvec) ==
  [ i \in 1..Len(hits) |->
      [ content |-> hits[i].content,
        domain |-> hits[i].domain,
        distance |-> Distance(hits[i].vec, qvec) ] ]

RAISED == [ raised |-> TRUE, docs |-> << >> ]

(* search: where_filter *)
where_of(domain_filter) == IF Truthy(domain_filter) THEN domain_filter ELSE None

(* What makes search raise: the embedding service, the index, or nothing *)
search_fault(backend, c, query, service_fails) ==
  IF embed_raises(backend, service_fails) THEN "embed"
  ELSE IF dimension_mismatch(c, embed_text(backend, query)) THEN "index"
  ELSE "none"

(* search that queries the whole collection, whatever the filter *)
search_unfiltered(backend, c, query, domain_filter, top_k, service_fails) ==
  LET qvec == embed_text(backend, query)
  IN  IF search_fault(backend, c, query, service_fails) # "none"
      THEN { RAISED }
      ELSE { [ raised |-> FALSE, docs |-> format_results(h, qvec) ] :
               h \in chroma_query(c, qvec, top_k, None) }

(* search that reports an empty partition as a placeholder document *)
search_placeholder(backend, c, query, domain_filter, top_k, service_fails) ==
  LET qvec == embed_text(backend, query)
  IN  IF search_fault(backend, c, query, service_fails) # "none"
      THEN { RAISED }
      ELSE IF Matching(c, where_of(domain_filter)) = {}
      THEN { [ raised |-> FALSE,
               docs |-> << [ content |-> "No documentation found for this domain.",
                             domain |-> domain_filter, distance |-> 0 ] >> ] }
      ELSE { [ raised |-> FALSE, docs |-> format_results(h, qvec) ] :
               h \in chroma_query(c, qvec, top_k, where_of(domain_filter)) }

(* SAPVectorStore.search: what it may return; an exception of embed_query  *)
(* or of collection.query propagates                                       *)
search(backend, c, query, domain_filter, top_k, service_fails) ==
  LET qvec == embed_text(backend, query)
  IN  IF search_fault(backend, c, query, service_fails) # "none"
      THEN { RAISED }
      ELSE { [ raised |-> FALSE, docs |-> format_results(h, qvec) ] :
               h \in chroma_query(c, qvec, top_k, where_of(domain_filter)) }

(* search_multi_domain: the concatenations of the per-domain results *)
RECURSIVE domain_blocks(_, _, _, _, _)
domain_blocks(backend, c, query, domains, k) ==
  IF domains = << >> THEN { << >> }
  ELSE { r.docs \o rest :
           r \in search(backend, c, query, Head(domains), k, FALSE),
           rest \in domain_blocks(backend, c, query, Tail(domains), k) }

(* The iteration of search_multi_domain's loop whose search raises (0:     *)
(* none): fail_at is the iteration at which the embedding service fails    *)
raising_iteration(backend, c, query, domains, fail_at) ==
  IF domains = << >> THEN 0
  ELSE IF search_fault(backend, c, query, fail_at = 1) # "none" THEN 1
  ELSE IF fail_at \in 2..Len(domains) /\ embed_raises(backend, TRUE) THEN fail_at
  ELSE 0

multi_fault(backend, c, query, domains, fail_at) ==
  LET i == raising_iteration(backend, c, query, domains, fail_at)
  IN  IF i = 0 THEN "none"
      ELSE IF embed_raises(backend, fail_at = i) THEN "embed"
      ELSE "index"

(* ascending order of distance *)
ByDistance(a, b) == a.distance <= b.distance

(* search_multi_domain that re-ranks the merged hits by distance *)
search_multi_domain_reranked(backend, c, query, domains, k, fail_at) ==
  IF raising_iteration(backend, c, query, domains, fail_at) # 0
  THEN { RAISED }
  ELSE { [ raised |-> FALSE, docs |-> SortSeq(docs, ByDistance) ] :
           docs \in domain_blocks(backend, c, query, domains, k) }

(* SAPVectorStore.search_multi_domain: what it may return *)
search_multi_domain(backend, c, query, domains, k, fail_at) ==
  IF raising_iteration(backend, c, query, domains, fail_at) # 0
  THEN { RAISED }
  ELSE { [ raised |-> FALSE, docs |-> docs ] :
           docs \in domain_blocks(backend, c, query, domains, k) }

(* search_multi_domain: the embed_query calls it makes, one per search *)
multi_embed_calls(backend, c, query, domains, fail_at) ==
  LET i == raising_iteration(backend, c, query, domains, fail_at)
  IN  IF i = 0 THEN Len(domains) ELSE i

(* add_documents: the documents of one collection.add, at most BATCH_SIZE *)
(* (5000 in the source, scaled to the lists of the model)                  *)
ADD_BATCH_SIZE == 2

(* add_documents: f"doc_{i + j}" *)
doc_id(p) == "doc_" \o ToString(p)

(* add_documents that numbers the documents of every batch from 0 *)
batch_records_batch_local_ids(backend, batch, i) ==
  [ j \in 1..Len(batch) |->
      [ id |-> doc_id(j - 1),
        content |-> batch[j].page_content,
        domain |-> batch[j].domain,
        vec |-> embed_documents(backend, [ k \in 1..Len(batch) |-> batch[k].page_content ])[j] ] ]

(* add_documents: ids, texts, metadatas and embeddings of the batch that   *)
(* starts at input position i                                              *)
batch_records(backend, batch, i) ==
  [ j \in 1..Len(batch) |->
      [ id |-> doc_id(i + j - 1),
        content |-> batch[j].page_content,
        domain |-> batch[j].domain,
        vec |-> embed_documents(backend, [ k \in 1..Len(batch) |-> batch[k].page_content ])[j] ] ]

(* A collection.add that stores a record whose id is taken under another id *)
chroma_add_keeping_both(c, records) ==
  c \cup { r \in records : \A d \in c : d.id # r.id }
    \cup { [ r EXCEPT !.id = r.id \o "_again" ] : r \in { x \in records : \E d \in c : d.id = x.id } }

(* chromadb collection.add: a record whose id is already stored is skipped *)
chroma_add(c, records) ==
  c \cup { r \in records : \A d \in c : d.id # r.id }

(* What add_documents asks, in order: the texts it has embedded and the    *)
(* ids and texts it has handed to collection.add                           *)
Event(kind, records) ==
  [ kind |-> kind,
    ids |-> IF kind = "add" THEN [ j \in DOMAIN records |-> records[j].id ] ELSE << >>,
    texts |-> [ j \in DOMAIN records |-> records[j].content ] ]

(* add_documents: the loop from input position i on; fail_at is the batch  *)
(* whose embedding request fails (0: none)                                 *)
RECURSIVE add_batches(_, _, _, _, _, _)
add_batches(backend, c, documents, i, fail_at, events) ==
  IF i >= Len(documents)
  THEN [ raised |-> FALSE, fault |-> "none", collection |-> c, events |-> events ]
  ELSE LET batch == SubSeq(documents, i + 1, Min(i + ADD_BATCH_SIZE, Len(documents)))
           batch_num == (i \div ADD_BATCH_SIZE) + 1
           records == batch_records(backend, batch, i)
           embedded == Append(events, Event("embed", records))
           added == Append(embedded, Event("add", records))
       IN  IF embed_raises(backend, fail_at = batch_num)
           THEN [ raised |-> TRUE, fault |-> "embed", collection |-> c, events |-> embedded ]
           ELSE IF \E j \in DOMAIN records : dimension_mismatch(c, records[j].vec)
           THEN [ raised |-> TRUE, fault |-> "index", collection |-> c, events |-> added ]
           ELSE add_batches(backend, chroma_add(c, Range(records)), documents,
                            i + ADD_BATCH_SIZE, fail_at, added)

(* SAPVectorStore.add_documents: whether it raises, the collection         *)
(* afterwards, and what it asked                                           *)
add_documents(backend, c, documents, fail_at) ==
  IF documents = << >>
  THEN [ raised |-> FALSE, fault |-> "none", collection |-> c, events |-> << >> ]
  ELSE add_batches(backend, c, documents, 0, fail_at, << >>)

(* ------------------------------- state --------------------------------- *)
VARIABLES
  pc,               \* position: "idle", a node of the graph, "END", "raised"
  state,            \* the AgentState dict threaded through the graph
  executed,         \* the nodes run so far in this invocation, in order
  outcome,          \* per node: "pending", "ok", "call_raised", "failed", "uncaught"
  caller,           \* who called run_agent: "script" or "webhook"
  verify_signature, \* VERIFY_TWILIO_SIGNATURE is "true"
  request,          \* the webhook request being served
  reply,            \* the webhook's HTTP response to it
  classify_input,   \* content_kind of what classify_node received
  embeddings,       \* SAPVectorStore.embeddings: "openai" or "lightweight"
  collection,       \* the records of the persisted collection sap_cx_docs
  call,             \* the SAPVectorStore method called last, with its arguments
  result,           \* what that call returned, or that it raised
  embed_calls,      \* the embed_query calls that call made
  vectors,          \* what the embeddings call made last returned
  runs              \* two run_agent invocations in flight at once

pipeVars ==
  << pc, state, executed, outcome, caller, verify_signature, request, reply,
     classify_input >>

storeVars == << embeddings, collection, call, result, embed_calls, vectors >>

pairVars == << runs >>

vars == << pipeVars, storeVars, pairVars >>

(* The record of a call: the method, its arguments, what raised in it     *)
(* (fault), whether it repeats the call before it (rerun: add_documents    *)
(* with the same list, an embedding of the same text up to letter case) or *)
(* follows a reset (after_reset), and what it asked of the embeddings and  *)
(* of the collection, in order (events)                                    *)
NO_CALL ==
  [ op |-> "none", query |-> "", domains |-> << >>, top_k |-> 0, fault |-> "none",
    documents |-> << >>, texts |-> << >>, rerun |-> FALSE, after_reset |-> FALSE,
    events |-> << >> ]

NO_RESULT == [ raised |-> FALSE, docs |-> << >> ]

(* The vector store before it is constructed *)
StoreIdle ==
  /\ embeddings = "lightweight"
  /\ collection = {}
  /\ call = NO_CALL
  /\ result = NO_RESULT
  /\ embed_calls = 0
  /\ vectors = << >>

RunIds == { 1, 2 }

(* An invocation that has not been made *)
NO_RUN ==
  [ pc |-> "idle", query |-> "", user_id |-> "", state |-> initial_state("", ""),
    own |-> initial_state("", ""), interleaved |-> FALSE ]

NO_REQUEST == [ signature_valid |-> FALSE, Body |-> "", From |-> "" ]

Pending == [ n \in Nodes |-> "pending" ]

Init ==
  /\ runs = [ i \in RunIds |-> NO_RUN ]
  /\ pc = "idle"
  /\ state = initial_state("", "")
  /\ executed = << >>
  /\ outcome = Pending
  /\ caller = "script"
  /\ verify_signature \in BOOLEAN
  /\ request = NO_REQUEST
  /\ reply = NO_REPLY
  /\ classify_input = "none"
  /\ StoreIdle

(* No invocation is in progress and no webhook request awaits its reply *)
Quiescent ==
  \/ pc = "idle"
  \/ pc \in { "END", "raised" } /\ caller = "script"

(* agent.invoke(initial_state): the graph starts at its entry point *)
invoke(query, user_id, who) ==
  /\ state' = initial_state(query, user_id)
  /\ pc' = ENTRY_POINT
  /\ executed' = << >>
  /\ outcome' = Pending
  /\ caller' = who
  /\ classify_input' = "none"

(* run_agent called directly (scripts/test_agent_with_rag.py, __main__) *)
run_agent ==
  /\ Quiescent
  /\ \E query \in Queries, user_id \in Users : invoke(query, user_id, "script")
  /\ request' = NO_REQUEST
  /\ reply' = NO_REPLY
  /\ UNCHANGED << verify_signature, storeVars, pairVars >>

RunClassify ==
  /\ pc = "classify"
  /\ \E raised \in BOOLEAN, detail \in ErrorDetails, content \in ClassifyContents :
       /\ state' = classify_node(state, raised, detail, content)
       /\ outcome' = [outcome EXCEPT !["classify"] =
                        IF raised THEN "call_raised"
                        ELSE IF classify_fails(raised, content) THEN "failed"
                        ELSE "ok"]
       /\ classify_input' = content_kind(raised, content)
  /\ executed' = Append(executed, "classify")
  /\ pc' = Edge("classify")
  /\ UNCHANGED << caller, verify_signature, request, reply, storeVars, pairVars >>

RunPlan ==
  /\ pc = "plan"
  /\ \E raised \in BOOLEAN, detail \in ErrorDetails, text \in Plans :
       /\ state' = plan_node(state, raised, detail, text)
       /\ outcome' = [outcome EXCEPT !["plan"] = IF raised THEN "call_raised" ELSE "ok"]
  /\ executed' = Append(executed, "plan")
  /\ pc' = Edge("plan")
  /\ UNCHANGED << caller, verify_signature, request, reply, classify_input, storeVars, pairVars >>

RunRetrieve ==
  /\ pc = "retrieve"
  /\ executed' = Append(executed, "retrieve")
  /\ IF retrieve_raises(state)
     THEN /\ pc' = "raised"
          /\ outcome' = [outcome EXCEPT !["retrieve"] = "uncaught"]
          /\ UNCHANGED state
     ELSE /\ pc' = Edge("retrieve")
          /\ outcome' = [outcome EXCEPT !["retrieve"] = "ok"]
          /\ state' = retrieve_node(state)
  /\ UNCHANGED << caller, verify_signature, request, reply, classify_input, storeVars, pairVars >>

RunGenerate ==
  /\ pc = "generate"
  /\ \E raised \in BOOLEAN, detail \in ErrorDetails, text \in Answers :
       /\ state' = generate_node(state, raised, detail, text)
       /\ outcome' = [outcome EXCEPT !["generate"] = IF raised THEN "call_raised" ELSE "ok"]
  /\ executed' = Append(executed, "generate")
  /\ pc' = Edge("generate")
  /\ UNCHANGED << caller, verify_signature, request, reply, classify_input, storeVars, pairVars >>

(* A webhook that does not look at the signature *)
webhook_unverified ==
  /\ Quiescent
  /\ \E req \in Requests :
       /\ request' = req
       /\ IF Strip(req.Body) = ""
          THEN /\ reply' = [ status |-> 200, text |-> GREETING ]
               /\ pc' = "idle"
               /\ UNCHANGED << state, executed, outcome, caller, classify_input >>
          ELSE /\ reply' = NO_REPLY
               /\ invoke(Strip(req.Body), req.From, "webhook")
  /\ UNCHANGED << verify_signature, storeVars, pairVars >>

(* webhook, up to the call of run_agent *)
webhook ==
  /\ Quiescent
  /\ \E req \in Requests :
       /\ request' = req
       /\ IF verify_signature /\ ~req.signature_valid
          THEN /\ reply' = [ status |-> 403, text |-> FORBIDDEN ]
               /\ pc' = "idle"
               /\ UNCHANGED << state, executed, outcome, caller, classify_input >>
          ELSE IF Strip(req.Body) = ""
          THEN /\ reply' = [ status |-> 200, text |-> GREETING ]
               /\ pc' = "idle"
               /\ UNCHANGED << state, executed, outcome, caller, classify_input >>
          ELSE /\ reply' = NO_REPLY
               /\ invoke(Strip(req.Body), req.From, "webhook")
  /\ UNCHANGED << verify_signature, storeVars, pairVars >>

(* webhook, from the return (or the exception) of run_agent to the         *)
(* response.  The handler's outer except branch (status 500) is not        *)
(* modelled: nothing between the inner try and the return can raise, since *)
(* response_text is always a string there.                                 *)
(* A webhook that lets the exception of run_agent reach its outer handler *)
webhook_respond_uncontained ==
  /\ caller = "webhook"
  /\ pc \in { "END", "raised" }
  /\ reply' = IF pc = "raised"
              THEN [ status |-> 500, text |-> AGENT_EXCEPTION_REPLY ]
              ELSE [ status |-> 200, text |-> response_text(state) ]
  /\ pc' = "idle"
  /\ UNCHANGED << state, executed, outcome, caller, verify_signature, request,
                  classify_input, storeVars, pairVars >>

webhook_respond ==
  /\ caller = "webhook"
  /\ pc \in { "END", "raised" }
  /\ reply' = [ status |-> 200,
                text |-> IF pc = "raised" THEN AGENT_EXCEPTION_REPLY
                         ELSE response_text(state) ]
  /\ pc' = "idle"
  /\ UNCHANGED << state, executed, outcome, caller, verify_signature, request,
                  classify_input, storeVars, pairVars >>

Next ==
  \/ run_agent
  \/ RunClassify
  \/ RunPlan
  \/ RunRetrieve
  \/ RunGenerate
  \/ webhook
  \/ webhook_respond

Spec == Init /\ [][Next]_vars

(* A request being handled is handled to its end: the stages of its run    *)
(* and the handler's response are steps of one thread that is not stopped  *)
Handling ==
  WF_vars(RunClassify \/ RunPlan \/ RunRetrieve \/ RunGenerate \/ webhook_respond)

SpecFair == Spec /\ Handling

(* ------------------------ two invocations at once ---------------------- *)
(* What the completion calls of the two invocations answer: a complete     *)
(* classification of a single domain, one across domains, and one whose    *)
(* primary_domain is a list                                                *)
PairContents ==
  { r \in ClassifyContents :
      /\ r.is_json /\ ~r.wrapped /\ r.keys = JsonKeys
      /\ \/ r.primary_domain = "fsm" /\ ~r.is_cross_domain /\ r.secondary_domains = << >>
         \/ r.primary_domain = "service_cloud" /\ r.is_cross_domain
              /\ r.secondary_domains = << "cpi" >>
         \/ r.primary_domain = LIST_VALUE /\ r.is_cross_domain
              /\ r.secondary_domains = << >> }

(* The node function the graph calls for a node *)
ApplyNode(node, s, raised, content) ==
  CASE node = "classify" -> classify_node(s, raised, DetailPool[1], content)
    [] node = "plan" -> plan_node(s, raised, DetailPool[1], PlanPool[1])
    [] node = "retrieve" -> retrieve_node(s)
    [] node = "generate" -> generate_node(s, raised, DetailPool[1], AnswerPool[1])

Other(i) == CHOOSE j \in RunIds : j # i

(* The state a node call leaves, or the state it was given if it raises *)
AfterNode(node, s, raised, content) ==
  IF node = "retrieve" /\ retrieve_raises(s) THEN s
  ELSE ApplyNode(node, s, raised, content)

(* run_agent(query, user_id), by either caller, while the other invocation *)
(* may be at any stage: each invocation makes its own initial_state        *)
Invoke(i) ==
  /\ runs[i].pc \in { "idle", "END", "raised" }
  /\ runs' = [ runs EXCEPT ![i] =
                 [ pc |-> ENTRY_POINT,
                   query |-> QueryPool[i],
                   user_id |-> UserPool[1],
                   state |-> initial_state(QueryPool[i], UserPool[1]),
                   own |-> initial_state(QueryPool[i], UserPool[1]),
                   interleaved |-> FALSE ] ]
  /\ UNCHANGED << pipeVars, storeVars >>

(* A stage that works on one state object kept for all invocations: it     *)
(* takes up the state the other invocation's stage left                    *)
StageOnSharedState(i) ==
  LET r == runs[i]
      shared == IF runs[Other(i)].pc \in Nodes THEN runs[Other(i)].state ELSE r.state
  IN  /\ r.pc \in Nodes
      /\ \E raised \in BOOLEAN, content \in PairContents :
           runs' = [ runs EXCEPT
                       ![i] = [ r EXCEPT
                                  !.pc = IF r.pc = "retrieve" /\ retrieve_raises(shared)
                                         THEN "raised" ELSE Edge(r.pc),
                                  !.state = AfterNode(r.pc, shared, raised, content),
                                  !.own = AfterNode(r.pc, r.own, raised, content) ],
                       ![Other(i)] = [ runs[Other(i)] EXCEPT
                                         !.interleaved = @ \/ runs[Other(i)].pc \in Nodes ] ]
      /\ UNCHANGED << pipeVars, storeVars >>

(* One stage of invocation i: the node function is called with the state   *)
(* of this invocation and its return value becomes that state; own is the  *)
(* state the stages of this invocation leave when it runs alone            *)
Stage(i) ==
  LET r == runs[i]
  IN  /\ r.pc \in Nodes
      /\ \E raised \in BOOLEAN, content \in PairContents :
           runs' = [ runs EXCEPT
                       ![i] = [ r EXCEPT
                                  !.pc = IF r.pc = "retrieve" /\ retrieve_raises(r.state)
                                         THEN "raised" ELSE Edge(r.pc),
                                  !.state = AfterNode(r.pc, r.state, raised, content),
                                  !.own = AfterNode(r.pc, r.own, raised, content) ],
                       ![Other(i)] = [ runs[Other(i)] EXCEPT
                                         !.interleaved = @ \/ runs[Other(i)].pc \in Nodes ] ]
      /\ UNCHANGED << pipeVars, storeVars >>

NextPair ==
  \/ \E i \in RunIds : Invoke(i)
  \/ \E i \in RunIds : Stage(i)

(* The two invocations on their own: no request at the webhook *)
InitPair == Init /\ verify_signature

SpecPair == InitPair /\ [][NextPair]_vars

(* --------------------------- vector store steps ------------------------ *)
(* The longest domain list given to search_multi_domain *)
MaxDomains == 2

DomainLists ==
  { s \in UNION { [ 1..n -> StoreDomains ] : n \in 0..MaxDomains } :
      \A i, j \in DOMAIN s : i # j => s[i] # s[j] }

SearchOps == { "search", "search_multi_domain" }

(* The calls whose outcome the caller takes before calling again *)
PendingOps == SearchOps \cup { "add_documents" }

(* The store exists and its caller holds no result it has not taken yet *)
Constructed == call.op \notin PendingOps \cup { "none" }

(* SAPVectorStore(): the backend is chosen anew, the persisted collection  *)
(* is opened as it is                                                      *)
Construct ==
  \E key_present \in BOOLEAN, client_fails \in BOOLEAN :
    /\ call.op \notin PendingOps
    /\ embeddings' = get_embeddings(key_present, client_fails)
    /\ call' = [ NO_CALL EXCEPT !.op = "__init__" ]
    /\ result' = NO_RESULT
    /\ embed_calls' = 0
    /\ UNCHANGED << collection, vectors, pipeVars, pairVars >>

(* add_documents, also called again at once with the list it was just     *)
(* given                                                                   *)
AddDocuments ==
  \E documents \in DocLists, fail_at \in 0..MaxDocs :
    LET r == add_documents(embeddings, collection, documents, fail_at)
        again == call.op = "add_documents" /\ documents = call.documents
    IN  /\ Constructed \/ again
        /\ fail_at # 0 =>
              /\ embeddings = "openai"
              /\ fail_at <= (Len(documents) + ADD_BATCH_SIZE - 1) \div ADD_BATCH_SIZE
        /\ collection' = r.collection
        /\ call' = [ NO_CALL EXCEPT
                       !.op = "add_documents",
                       !.documents = documents,
                       !.fault = r.fault,
                       !.rerun = again /\ ~result.raised,
                       !.events = r.events ]
        /\ result' = [ raised |-> r.raised, docs |-> << >> ]
        /\ embed_calls' = 0
        /\ UNCHANGED << embeddings, vectors, pipeVars, pairVars >>

(* A reset that deletes the documents of one domain only *)
ResetOneDomain ==
  /\ Constructed
  /\ collection' = { r \in collection : r.domain # "service_cloud" }
  /\ call' = [ NO_CALL EXCEPT !.op = "reset" ]
  /\ result' = NO_RESULT
  /\ embed_calls' = 0
  /\ UNCHANGED << embeddings, vectors, pipeVars, pairVars >>

(* reset: delete_collection, then create_collection *)
Reset ==
  /\ Constructed
  /\ collection' = {}
  /\ call' = [ NO_CALL EXCEPT !.op = "reset" ]
  /\ result' = NO_RESULT
  /\ embed_calls' = 0
  /\ UNCHANGED << embeddings, vectors, pipeVars, pairVars >>

(* search that stores the query it was given *)
SearchStoringQuery ==
  \E query \in StoreQueries, domain_filter \in StoreDomains \cup { None },
     top_k \in (1..MaxTopK) \cup { DEFAULT_TOP_K }, service_fails \in BOOLEAN :
    /\ Constructed
    /\ service_fails => embeddings = "openai"
    /\ result' \in search(embeddings, collection, query, domain_filter, top_k, service_fails)
    /\ call' = [ NO_CALL EXCEPT
                   !.op = "search",
                   !.query = query,
                   !.domains = IF domain_filter = None THEN << >> ELSE << domain_filter >>,
                   !.top_k = top_k,
                   !.fault = search_fault(embeddings, collection, query, service_fails),
                   !.after_reset = (call.op = "reset") ]
    /\ embed_calls' = 1
    /\ collection' = chroma_add(collection,
                       { [ id |-> "query", content |-> query, domain |-> None,
                           vec |-> embed_text(embeddings, query) ] })
    /\ UNCHANGED << embeddings, vectors, pipeVars, pairVars >>

Search ==
  \E query \in StoreQueries, domain_filter \in StoreDomains \cup { None },
     top_k \in (1..MaxTopK) \cup { DEFAULT_TOP_K }, service_fails \in BOOLEAN :
    /\ Constructed
    /\ service_fails => embeddings = "openai"
    /\ result' \in search(embeddings, collection, query, domain_filter, top_k, service_fails)
    /\ call' = [ NO_CALL EXCEPT
                   !.op = "search",
                   !.query = query,
                   !.domains = IF domain_filter = None THEN << >> ELSE << domain_filter >>,
                   !.top_k = top_k,
                   !.fault = search_fault(embeddings, collection, query, service_fails),
                   !.after_reset = (call.op = "reset") ]
    /\ embed_calls' = 1
    /\ UNCHANGED << embeddings, collection, vectors, pipeVars, pairVars >>

SearchMultiDomain ==
  \E query \in StoreQueries, domains \in DomainLists,
     top_k_per_domain \in (1..MaxTopK) \cup { DEFAULT_TOP_K_PER_DOMAIN },
     fail_at \in 0..MaxDomains :
    /\ Constructed
    /\ fail_at # 0 => embeddings = "openai" /\ fail_at <= Len(domains)
    /\ result' \in search_multi_domain(embeddings, collection, query, domains,
                                       top_k_per_domain, fail_at)
    /\ call' = [ NO_CALL EXCEPT
                   !.op = "search_multi_domain",
                   !.query = query,
                   !.domains = domains,
                   !.top_k = top_k_per_domain,
                   !.fault = multi_fault(embeddings, collection, query, domains, fail_at),
                   !.after_reset = (call.op = "reset") ]
    /\ embed_calls' = multi_embed_calls(embeddings, collection, query, domains, fail_at)
    /\ UNCHANGED << embeddings, collection, vectors, pipeVars, pairVars >>

(* The caller takes what search, search_multi_domain or add_documents      *)
(* returned or raised                                                      *)
Return ==
  /\ call.op \in PendingOps
  /\ call' = [ NO_CALL EXCEPT !.op = "returned" ]
  /\ result' = NO_RESULT
  /\ embed_calls' = 0
  /\ UNCHANGED << embeddings, collection, vectors, pipeVars, pairVars >>

NextStore ==
  \/ Construct
  \/ AddDocuments
  \/ Reset
  \/ Search
  \/ SearchMultiDomain
  \/ Return

(* The store on its own: no message is being handled *)
InitStore == Init /\ verify_signature

SpecStore == InitStore /\ [][NextStore]_vars

(* ======================================================================= *)
(* Properties                                                              *)
(* ======================================================================= *)
AllNodesInOrder == << "classify", "plan", "retrieve", "generate" >>

(* The invocation is over: the graph reached END or a node raised *)
Finished == pc \in { "END", "raised" }

(* C1: for every query and every outcome of the completion calls,          *)
(* run_agent returns (no node's exception escapes it) and the returned     *)
(* state has a non-empty answer.                                           *)
C1_AlwaysAnswers ==
  /\ pc # "raised"
  /\ (pc = "END" => Truthy(state.answer))

(* C2: in every invocation the nodes run in the order classify, plan,      *)
(* retrieve, generate, each exactly once: what has run is always a prefix  *)
(* of that order, and a finished invocation has run all four.              *)
C2_LinearOrder ==
  /\ Len(executed) <= Len(AllNodesInOrder)
  /\ executed = SubSeq(AllNodesInOrder, 1, Len(executed))
  /\ (Finished => executed = AllNodesInOrder)

(* C3: when the completion call of classify or of plan raised, the later   *)
(* nodes still all run and the final state has a non-empty answer.         *)
C3_NoShortCircuit ==
  (Finished /\ (outcome["classify"] = "call_raised" \/ outcome["plan"] = "call_raised"))
    => (executed = AllNodesInOrder /\ pc = "END" /\ Truthy(state.answer))

(* C4: after classify failed, the primary domain that plan, retrieve and   *)
(* generate read is the string "unknown".                                  *)
C4_UnknownDefault ==
  (pc \in { "plan", "retrieve", "generate" } /\ outcome["classify"] \in { "call_raised", "failed" })
    => primary_domain_read(state) = "unknown"

(* C5 as stated: whenever a stage error was contained (error is set in the *)
(* returned state), the returned answer is the generic apology string.     *)
C5_ApologyOnAnyError ==
  (pc = "END" /\ Truthy(state.error)) => state.answer = GENERATION_APOLOGY

(* C5 amended: the returned answer is the generic apology string exactly   *)
(* when generate's own completion call failed; when only classify or plan  *)
(* failed, the answer is the text generate's completion call returned.     *)
C5_ApologyOnGenerateError ==
  pc = "END" =>
    /\ (outcome["generate"] = "call_raised" =>
          state.answer = GENERATION_APOLOGY /\ Truthy(state.error))
    /\ (outcome["generate"] = "ok" =>
          state.answer \in Answers /\ state.answer # GENERATION_APOLOGY)

C5_Witness ==
  /\ pc = "END"
  /\ outcome["classify"] = "ok"
  /\ outcome["plan"] = "ok"
  /\ outcome["generate"] = "call_raised"
  /\ state.answer = GENERATION_APOLOGY

(* The webhook has answered a request for which it ran the agent *)
RunReplied ==
  /\ caller = "webhook"
  /\ pc = "idle"
  /\ reply.status = 200
  /\ Strip(request.Body) # ""

(* C6: the reply to a webhook request whose agent run ended with error set *)
(* or raised is a fixed text chosen by which of the two happened, whatever *)
(* the error says: it never carries the error detail.                      *)
C6_NoErrorDetailInReply ==
  (RunReplied /\ (outcome["retrieve"] = "uncaught" \/ Truthy(state.error))) =>
    /\ reply.text \in FixedTexts
    /\ (outcome["retrieve"] = "uncaught" => reply.text = AGENT_EXCEPTION_REPLY)
    /\ (outcome["retrieve"] # "uncaught" /\ Truthy(state.error) =>
          reply.text = AGENT_ERROR_REPLY)

C6_Witness ==
  /\ RunReplied
  /\ outcome["classify"] = "call_raised"
  /\ outcome["generate"] = "ok"
  /\ Truthy(state.error)
  /\ reply.text = AGENT_ERROR_REPLY

(* C7: once error is set, every later node of the same invocation leaves   *)
(* it set, whether the node succeeds or fails.                             *)
C7_ErrorNeverCleared ==
  [][(pc \in Nodes /\ Truthy(state.error)) => Truthy(state'.error)]_vars

C7_Witness ==
  /\ pc = "END"
  /\ outcome["classify"] = "call_raised"
  /\ outcome["plan"] = "ok"
  /\ outcome["generate"] = "ok"
  /\ Truthy(state.error)

(* AgentState: the fields each node owns; error is shared by all nodes *)
Owned(node) ==
  CASE node = "classify" ->
         { "primary_domain", "secondary_domains", "is_cross_domain", "confidence" }
    [] node = "plan" -> { "plan" }
    [] node = "retrieve" -> { "retrieved_docs" }
    [] node = "generate" -> { "answer" }

(* C8: a node's step changes no field owned by another node, and never     *)
(* query or user_id: each owned field is written by its owner alone.       *)
C8_FieldOwnership ==
  [][\A n \in Nodes :
       pc = n =>
         \A f \in (DOMAIN state) \ (Owned(n) \cup { "error" }) : state'[f] = state[f]]_vars

C8_Witness ==
  /\ pc = "END"
  /\ state.primary_domain \in DOMAIN_DESCRIPTIONS
  /\ state.plan \in Plans
  /\ Len(state.retrieved_docs) = Len(MOCK_DOCS[state.primary_domain])
  /\ state.answer \in Answers
  /\ state.query \in Queries

(* C9: after classify, is_cross_domain is true exactly when                *)
(* secondary_domains is non-empty, for every response of the service.      *)
C9_CrossDomainIffSecondary ==
  Len(executed) >= 1 =>
    (state.is_cross_domain <=> state.secondary_domains # << >>)

(* C10: whenever classify completed without recording an error,            *)
(* primary_domain is one of the known domain identifiers.                  *)
C10_PrimaryInCatalog ==
  (Len(executed) >= 1 /\ outcome["classify"] = "ok")
    => state.primary_domain \in DOMAIN_DESCRIPTIONS

(* C11: a well-formed classification JSON wrapped in surrounding text or   *)
(* formatting markers is unwrapped and classified with no error recorded.  *)
C11_WrappedJsonClassified ==
  (Len(executed) >= 1 /\ classify_input = "wrapped_json")
    => (outcome["classify"] = "ok" /\ state.primary_domain # None)

(* C12: when the content is not JSON, or is JSON without primary_domain,   *)
(* classify records a classification error and primary_domain is left     *)
(* unassigned, in particular never a catalog domain.                       *)
C12_NoGuessOnMalformed ==
  (Len(executed) >= 1 /\ classify_input \in { "not_json", "no_primary_domain" })
    => /\ Truthy(state.error)
       /\ state.primary_domain = None
       /\ state.primary_domain \notin DOMAIN_DESCRIPTIONS
       /\ (pc = "plan" =>
             state.error \in { CLASSIFICATION_FAILED \o JSON_DECODE_ERROR,
                               CLASSIFICATION_FAILED \o KeyErrorText("primary_domain") })

C12_Witness ==
  /\ pc = "plan"
  /\ classify_input = "no_primary_domain"
  /\ state.error = CLASSIFICATION_FAILED \o KeyErrorText("primary_domain")
  /\ state.primary_domain = None

(* C14: retrieve consults only the primary domain when is_cross_domain is  *)
(* false, and the primary then every secondary domain when it is true, so  *)
(* retrieved_docs holds evidence of every secondary domain that has        *)
(* documents.                                                              *)
C14_RetrieveByMode ==
  outcome["retrieve"] = "ok" =>
    /\ (~state.is_cross_domain =>
          state.retrieved_docs =
            (IF state.primary_domain \in DOMAIN MOCK_DOCS
             THEN MOCK_DOCS[state.primary_domain] ELSE NO_DOCS))
    /\ (state.is_cross_domain =>
          \A i \in DOMAIN state.secondary_domains :
            state.secondary_domains[i] \in DOMAIN MOCK_DOCS =>
              Range(MOCK_DOCS[state.secondary_domains[i]])
                \cap Range(state.retrieved_docs) # {})

(* C19: after retrieve, retrieved_docs is non-empty whatever primary_domain *)
(* is (None, "unknown", an identifier outside the catalog), so generate    *)
(* always receives at least one document.                                  *)
C19_DocsNeverEmpty ==
  /\ (outcome["retrieve"] = "ok" => Len(state.retrieved_docs) >= 1)
  /\ (pc = "generate" => Len(state.retrieved_docs) >= 1)

C19_Witness ==
  /\ pc = "generate"
  /\ state.primary_domain \in { None, "unknown", "commerce_cloud" }
  /\ state.retrieved_docs = NO_DOCS

(* C27: the state the first stage receives holds the caller's query and   *)
(* user_id, and every other field at its default: none, empty, false or    *)
(* zero.                                                                   *)
C27_InitialState ==
  pc = "classify" =>
    /\ state = [ query |-> state.query, user_id |-> state.user_id,
                 primary_domain |-> None, secondary_domains |-> << >>,
                 is_cross_domain |-> FALSE, plan |-> None,
                 retrieved_docs |-> << >>, answer |-> None,
                 confidence |-> 0, error |-> None ]
    /\ state.query \in Queries
    /\ state.user_id \in Users
    /\ (caller = "webhook" =>
          state.query = Strip(request.Body) /\ state.user_id = request.From)

(* A webhook message whose Body had surrounding blanks *)
C27_Witness ==
  /\ pc = "classify"
  /\ caller = "webhook"
  /\ state.query = Strip(request.Body)
  /\ state.query # request.Body
  /\ state.error = None

(* A stage failed: its completion call raised, or its content was rejected *)
StageFailed(node) == outcome[node] \in { "call_raised", "failed" }

(* The messages a stage can leave in error *)
StageErrors(node) ==
  CASE node = "classify" ->
         { CLASSIFICATION_FAILED \o d :
             d \in ErrorDetails \cup { JSON_DECODE_ERROR, KeyErrorText("primary_domain"),
                                       KeyErrorText("confidence") } }
    [] node = "plan" -> { PLANNING_FAILED \o d : d \in ErrorDetails }
    [] node = "generate" -> { GENERATION_FAILED \o d : d \in ErrorDetails }
    [] OTHER -> {}

(* C28: at the end of a run error is none exactly when no stage failed;    *)
(* otherwise it is the stage-tagged message of the last stage that failed. *)
C28_ErrorOfLastFailure ==
  pc = "END" =>
    /\ (state.error = None <=> \A n \in Nodes : ~StageFailed(n))
    /\ (StageFailed("generate") => state.error \in StageErrors("generate"))
    /\ (~StageFailed("generate") /\ StageFailed("plan") =>
          state.error \in StageErrors("plan"))
    /\ (~StageFailed("generate") /\ ~StageFailed("plan") /\ StageFailed("classify") =>
          state.error \in StageErrors("classify"))

(* classify and generate both failed: generate's message is the one left *)
C28_Witness ==
  /\ pc = "END"
  /\ StageFailed("classify")
  /\ ~StageFailed("plan")
  /\ StageFailed("generate")
  /\ state.error \in StageErrors("generate")

(* C29: when classify_node records a "Classification failed" error, the    *)
(* four classification fields are still at their initial values.           *)
C29_FailedClassifyWritesNothing ==
  (pc = "plan" /\ state.error \in StageErrors("classify")) =>
    /\ state.primary_domain = None
    /\ state.secondary_domains = << >>
    /\ state.is_cross_domain = FALSE
    /\ state.confidence = 0

(* ------------------------------ embeddings steps ---------------------- *)
EmbedOps == { "embed_query", "embed_documents" }

TextLists == UNION { [ 1..n -> EmbedTexts ] : n \in 0..MaxDocs }

(* The call before embedded one text, the same up to letter case *)
SameTextBefore(texts) ==
  /\ call.op \in EmbedOps
  /\ ~result.raised
  /\ Len(call.texts) = 1
  /\ Len(texts) = 1
  /\ Lower(call.texts[1]) = Lower(texts[1])

GetEmbeddings ==
  \E key_present \in BOOLEAN, client_fails \in BOOLEAN :
    /\ embeddings' = get_embeddings(key_present, client_fails)
    /\ call' = [ NO_CALL EXCEPT !.op = "get_embeddings" ]
    /\ result' = NO_RESULT
    /\ vectors' = << >>
    /\ UNCHANGED << collection, embed_calls, pipeVars, pairVars >>

EmbedQuery ==
  \E text \in EmbedTexts, service_fails \in BOOLEAN :
    /\ call.op # "none"
    /\ service_fails => embeddings = "openai"
    /\ call' = [ NO_CALL EXCEPT
                   !.op = "embed_query",
                   !.texts = << text >>,
                   !.fault = IF service_fails THEN "embed" ELSE "none",
                   !.rerun = SameTextBefore(<< text >>) ]
    /\ result' = [ raised |-> embed_raises(embeddings, service_fails), docs |-> << >> ]
    /\ vectors' = IF embed_raises(embeddings, service_fails) THEN << >>
                  ELSE << embed_text(embeddings, text) >>
    /\ UNCHANGED << embeddings, collection, embed_calls, pipeVars, pairVars >>

(* embed_documents; fail_at is the request that fails (0: none) *)
EmbedDocuments ==
  \E texts \in TextLists, fail_at \in 0..MaxDocs :
    /\ call.op # "none"
    /\ fail_at # 0 => fail_at <= embed_requests(embeddings, texts)
    /\ call' = [ NO_CALL EXCEPT
                   !.op = "embed_documents",
                   !.texts = texts,
                   !.fault = IF fail_at # 0 THEN "embed" ELSE "none",
                   !.rerun = SameTextBefore(texts) ]
    /\ result' = [ raised |-> fail_at # 0, docs |-> << >> ]
    /\ vectors' = IF fail_at # 0 THEN << >> ELSE embed_documents(embeddings, texts)
    /\ UNCHANGED << embeddings, collection, embed_calls, pipeVars, pairVars >>

NextEmbed ==
  \/ GetEmbeddings
  \/ EmbedQuery
  \/ EmbedDocuments

(* The embeddings on their own: no store, no message *)
SpecEmbed == InitStore /\ [][NextEmbed]_vars

(* C31: with signature verification on, a request whose signature does   *)
(* not validate is answered 403 and the agent is not run for it; the agent *)
(* runs only for requests that passed validation and have a non-empty      *)
(* Body.                                                                   *)
C31_NoRunWithoutValidSignature ==
  /\ (verify_signature /\ request # NO_REQUEST /\ ~request.signature_valid) =>
       /\ reply = [ status |-> 403, text |-> FORBIDDEN ]
       /\ pc = "idle"
  /\ (caller = "webhook" /\ pc # "idle") =>
       /\ (verify_signature => request.signature_valid)
       /\ Strip(request.Body) # ""
       /\ state.query = Strip(request.Body)

(* A question with a bad signature, refused *)
C31_Witness ==
  /\ verify_signature
  /\ ~request.signature_valid
  /\ Strip(request.Body) # ""
  /\ reply.status = 403
  /\ pc = "idle"

(* The agent is running, or has just ended, for a webhook request *)
RunPendingReply == caller = "webhook" /\ pc # "idle"

(* C32: a webhook request that passed verification gets one reply: none    *)
(* while its run goes on, and once the run has ended, whether with an      *)
(* answer, with error set or with an exception, a 200 response with a      *)
(* message, the fixed apology when the run raised.                         *)
C32_AlwaysOneReply ==
  /\ [](RunPendingReply => reply = NO_REPLY)
  /\ []((caller = "webhook" /\ pc = "idle"
          /\ (verify_signature => request.signature_valid)) =>
            /\ reply.status = 200
            /\ reply.text # None
            /\ (Strip(request.Body) = "" => reply.text = GREETING)
            /\ (Strip(request.Body) # "" /\ outcome["retrieve"] = "uncaught" =>
                  reply.text = AGENT_EXCEPTION_REPLY))
  /\ (RunPendingReply ~> (caller = "webhook" /\ pc = "idle" /\ reply.status = 200))

(* The run raised in retrieve and the request was answered all the same *)
C32_Witness ==
  /\ RunReplied
  /\ outcome["retrieve"] = "uncaught"
  /\ reply = [ status |-> 200, text |-> AGENT_EXCEPTION_REPLY ]

(* C33: two invocations interleaved at stage boundaries share no state:   *)
(* at every boundary, and in the final state each returns, query and       *)
(* user_id are the invocation's own arguments and every other field is     *)
(* what its own stages wrote.                                              *)
C33_NoSharedState ==
  \A i \in RunIds :
    runs[i].pc # "idle" =>
      /\ runs[i].state.query = runs[i].query
      /\ runs[i].state.user_id = runs[i].user_id
      /\ runs[i].state = runs[i].own

(* Both invocations ended, each having had stages of the other between     *)
(* its own, with different classifications and one of them with an error   *)
C33_Witness ==
  /\ \A i \in RunIds : runs[i].pc = "END" /\ runs[i].interleaved
  /\ runs[1].state.query # runs[2].state.query
  /\ runs[1].state.primary_domain = "fsm"
  /\ runs[2].state.primary_domain = "service_cloud"
  /\ runs[1].state.error = None
  /\ runs[2].state.error # None

(* --------------------------- vector store claims ----------------------- *)
(* The place of a domain in the list search_multi_domain was given *)
Position(domains, d) == CHOOSE i \in DOMAIN domains : domains[i] = d

(* The stored documents of a domain *)
Partition(d) == { r \in collection : r.domain = d }

(* C13: search_multi_domain returns its hits in domain-block order: every  *)
(* hit of an earlier domain of the list precedes every hit of a later one, *)
(* whatever the distances, and the hits of one domain stay in the order    *)
(* their own query gave.                                                   *)
C13_DomainBlockOrder ==
  (call.op = "search_multi_domain" /\ ~result.raised) =>
    \A p, q \in DOMAIN result.docs :
      p < q =>
        /\ result.docs[p].domain \in Range(call.domains)
        /\ result.docs[q].domain \in Range(call.domains)
        /\ Position(call.domains, result.docs[p].domain)
             <= Position(call.domains, result.docs[q].domain)
        /\ (result.docs[p].domain = result.docs[q].domain =>
              result.docs[p].distance <= result.docs[q].distance)

(* Two non-empty blocks, and a hit of the second closer than one of the first *)
C13_Witness ==
  /\ call.op = "search_multi_domain"
  /\ ~result.raised
  /\ Len(call.domains) = 2
  /\ \E p, q \in DOMAIN result.docs :
       /\ p < q
       /\ result.docs[p].domain = call.domains[1]
       /\ result.docs[q].domain = call.domains[2]
       /\ result.docs[p].distance > result.docs[q].distance

(* C15: when the embedding service or the index raises during search or    *)
(* search_multi_domain, nothing is raised to the caller, who gets a single *)
(* synthetic document instead.                                             *)
C15_FailuresContained ==
  (call.op \in SearchOps /\ call.fault # "none") =>
    /\ ~result.raised
    /\ Len(result.docs) = 1

(* C16: one search_multi_domain call embeds the query exactly once,        *)
(* however many domains it is given.                                       *)
C16_EmbedsOnce ==
  (call.op = "search_multi_domain" /\ call.domains # << >> /\ ~result.raised) =>
    embed_calls = 1

(* C17: search with a domain returns at most top_k documents, all of that  *)
(* domain, in ascending distance.                                          *)
C17_FilteredSearch ==
  (call.op = "search" /\ call.domains # << >> /\ ~result.raised) =>
    /\ Len(result.docs) <= call.top_k
    /\ \A i \in DOMAIN result.docs : result.docs[i].domain = call.domains[1]
    /\ \A i, j \in DOMAIN result.docs :
         i < j => result.docs[i].distance <= result.docs[j].distance

(* top_k hits of the domain, while a document of another domain is closer  *)
(* to the query than the last of them                                      *)
C17_Witness ==
  /\ call.op = "search"
  /\ call.domains = << "service_cloud" >>
  /\ ~result.raised
  /\ Len(result.docs) = call.top_k
  /\ call.top_k = 2
  /\ \E r \in collection :
       /\ r.domain # "service_cloud"
       /\ Distance(r.vec, embed_text(embeddings, call.query)) < result.docs[2].distance

(* C18: searching a domain that holds no documents returns the empty list  *)
(* and raises nothing; in search_multi_domain such a domain adds nothing   *)
(* and the result is what the other domains of the list give. (The calls   *)
(* in which the embedding service or the index raises are C15's.)          *)
C18_EmptyPartition ==
  LET Holds(d) == Partition(d) # {}
  IN  /\ (/\ call.op = "search"
          /\ call.domains # << >>
          /\ call.fault = "none"
          /\ Partition(call.domains[1]) = {})
           => (~result.raised /\ result.docs = << >>)
      /\ (call.op = "search_multi_domain" /\ call.fault = "none") =>
           /\ ~result.raised
           /\ \A i \in DOMAIN result.docs : Holds(result.docs[i].domain)
           /\ result \in search_multi_domain(embeddings, collection, call.query,
                           SelectSeq(call.domains, Holds), call.top_k, 0)

(* An empty partition listed before a partition that gives hits *)
C18_Witness ==
  /\ call.op = "search_multi_domain"
  /\ call.fault = "none"
  /\ Len(call.domains) = 2
  /\ Partition(call.domains[1]) = {}
  /\ Partition(call.domains[2]) # {}
  /\ Len(result.docs) >= 1

(* C20: a search or search_multi_domain call leaves the collection as it   *)
(* was; the collection changes only in add_documents and reset.            *)
C20_SearchReadOnly ==
  [][ /\ (call'.op \in SearchOps => collection' = collection)
      /\ (collection' # collection => call'.op \in { "add_documents", "reset" })
    ]_vars

(* A search that found documents in a non-empty collection *)
C20_Witness ==
  /\ call.op \in SearchOps
  /\ ~result.raised
  /\ collection # {}
  /\ Len(result.docs) >= 1
  /\ call.domains = << >>

C22_NoDocumentShadowed ==
  (call.op = "add_documents" /\ ~result.raised) =>
    \A j \in DOMAIN call.documents :
      \E r \in collection :
        /\ r.content = call.documents[j].page_content
        /\ r.domain = call.documents[j].domain

(* The call embedded a query or a batch and took it to the collection *)
VectorUsed ==
  \/ call.op \in SearchOps /\ embed_calls >= 1 /\ call.fault # "embed"
  \/ call.op = "add_documents" /\ \E k \in DOMAIN call.events : call.events[k].kind = "add"

(* C23: every vector added to or queried against the persisted collection  *)
(* has the dimension of the vectors it holds, whichever backend each       *)
(* construction chose.                                                     *)
C23_DimensionFixed ==
  VectorUsed => \A r \in collection : r.vec.dim = Dimension(embeddings)

(* C26: reset leaves no document of any domain: until the next             *)
(* add_documents no search returns a document, and a search in which       *)
(* nothing raises returns the empty list.                                  *)
C26_ResetEmpties ==
  /\ [][ /\ (call'.op = "reset" => collection' = {})
         /\ (collection = {} /\ collection' # {} => call'.op = "add_documents")
       ]_vars
  /\ []((call.op \in SearchOps /\ collection = {}) =>
          /\ result.docs = << >>
          /\ (call.fault = "none" => ~result.raised))

(* A search of a domain right after a reset *)
C26_Witness ==
  /\ call.op = "search"
  /\ call.after_reset
  /\ call.domains # << >>
  /\ ~result.raised
  /\ result.docs = << >>
  /\ collection = {}

(* C30: add_documents takes its list to the collection in consecutive      *)
(* batches of at most the batch size, ceil(n / size) of them, each         *)
(* embedded before it is added, the document at input position p under the *)
(* id doc_p, every document once and in input order.                       *)
C30_BatchedInOrder ==
  (call.op = "add_documents" /\ ~result.raised) =>
    LET n == Len(call.documents)
        batches == (n + ADD_BATCH_SIZE - 1) \div ADD_BATCH_SIZE
        ev == call.events
    IN  /\ Len(ev) = 2 * batches
        /\ \A k \in 1..batches :
             LET size == Min(ADD_BATCH_SIZE, n - (k - 1) * ADD_BATCH_SIZE)
             IN  /\ ev[2 * k - 1].kind = "embed"
                 /\ ev[2 * k].kind = "add"
                 /\ ev[2 * k - 1].texts = ev[2 * k].texts
                 /\ Len(ev[2 * k].ids) = size
                 /\ Len(ev[2 * k].texts) = size
                 /\ \A j \in 1..size :
                      LET p == (k - 1) * ADD_BATCH_SIZE + j - 1
                      IN  /\ ev[2 * k].ids[j] = doc_id(p)
                          /\ ev[2 * k].texts[j] = call.documents[p + 1].page_content
        /\ \A p \in 0..(n - 1) : \E r \in collection : r.id = doc_id(p)

(* A list longer than one batch, added to an empty store *)
C30_Witness ==
  /\ call.op = "add_documents"
  /\ ~result.raised
  /\ ~call.rerun
  /\ Len(call.documents) > ADD_BATCH_SIZE
  /\ Len(call.events) = 4
  /\ \A p \in 0..(Len(call.documents) - 1) :
       \E r \in collection :
         r.id = doc_id(p) /\ r.content = call.documents[p + 1].page_content

(* C24: embed_documents returns one vector per text, the i-th the         *)
(* embedding of the i-th text, also when the list is longer than a request *)
(* may be and is embedded in chunks.                                       *)
C24_OneVectorPerTextInOrder ==
  (call.op = "embed_documents" /\ ~result.raised) =>
    /\ Len(vectors) = Len(call.texts)
    /\ \A i \in DOMAIN call.texts : vectors[i] = embed_text(embeddings, call.texts[i])

(* Two requests of the OpenAI backend, whose first and last vectors differ *)
C24_Witness ==
  /\ call.op = "embed_documents"
  /\ ~result.raised
  /\ embeddings = "openai"
  /\ Len(call.texts) > EMBED_BATCH_SIZE
  /\ Len(vectors) = Len(call.texts)
  /\ vectors[1] # vectors[Len(vectors)]

(* C25: with the lightweight backend, two embeddings one after the other   *)
(* of texts equal up to letter case give the same vectors, whether made by *)
(* embed_query(t) or by embed_documents([t]).                              *)
C25_DeterministicCaseInsensitive ==
  [][ ( /\ embeddings = "lightweight"
        /\ embeddings' = "lightweight"
        /\ call.op \in EmbedOps
        /\ call'.op \in EmbedOps
        /\ Len(call.texts) = 1
        /\ Len(call'.texts) = 1
        /\ Lower(call.texts[1]) = Lower(call'.texts[1]) )
      => (vectors' = vectors /\ Len(vectors') = 1 /\ ~result'.raised) ]_vars

(* embed_documents of a text right after embed_query of the same text in   *)
(* other letter case                                                       *)
C25_Witness ==
  /\ embeddings = "lightweight"
  /\ call.op = "embed_documents"
  /\ call.rerun
  /\ call.texts = << "Ticket Assignment" >>
  /\ vectors = << embed_text("lightweight", "ticket assignment") >>

====
